---- MODULE Spec2Model ----
(***************************************************************************)
(* Model of src/game.py: the inventory engine (InteractiveInventoryGame)   *)
(* and the ten-step wizard that drives it through st.session_state.        *)
(*                                                                         *)
(* Units.  Prices, costs and cash are whole yuan (the catalog's prices and *)
(* costs are integral floats, so every amount is an exact integer).        *)
(* Forecasts are held in tenths of a unit per day, service levels in       *)
(* percent, safety stock and reorder point in thousandths of a unit, the   *)
(* demand noise factor in hundredths, the score in tenths of a point.      *)
(***************************************************************************)
EXTENDS Integers, Sequences, FiniteSets, TLC

(***************************************************************************)
(* Bounds of the model and the inputs the player and the random source     *)
(* are drawn from.                                                         *)
(***************************************************************************)
MaxDay == 5

\* Cap on the number of quiz bonuses granted in a session.
MaxQuiz == 2

\* How far below 0% and above 100% the service levels passed to
\* calculate_safety_stock go, in percent.
MaxCalcOvershoot == 5

\* Noise factors (hundredths) the random source may return for a day.
NoiseInputs == {[WATER |-> 79, BREAD |-> 79, MILK |-> 79],
                [WATER |-> 130, BREAD |-> 130, MILK |-> 130]}

\* Forecasts (tenths of a unit per day) the player may type for a product.
ForecastInputs == [WATER |-> {400}, BREAD |-> {300}, MILK |-> {300}]

\* Service levels (percent) the player may type.
ServiceInputs == {95}

\* Order quantities the player may type for a product.
OrderInputs == [WATER |-> {500}, BREAD |-> {500}, MILK |-> {500}]

\* Order intervals the player types at step 5, in days, per product.
IntervalInputs == [WATER |-> {4}, BREAD |-> {5}, MILK |-> {5}]

(***************************************************************************)
(* Program constants.                                                      *)
(***************************************************************************)
InitialCash == 10000

HistoryWindow == 7

LastStep == 9

NoiseMin == 70

NoiseMax == 130

MaxOrderQty == 500

MaxForecast == 1000

MinServicePct == 80

MaxServicePct == 99

NoStockoutBonus == 500

QuizBonus == 100

MinOrderInterval == 1

MaxOrderInterval == 10

\* Lower bounds of the grades, in tenths of a point.
GradeSMin == 1500

GradeAMin == 1000

GradeBMin == 500

ProductIds == <<"WATER", "BREAD", "MILK">>

ProductSet == {ProductIds[i] : i \in 1..Len(ProductIds)}

create_products ==
    [WATER |-> [name |-> "water", price |-> 3, cost |-> 1, current_stock |-> 120,
                daily_demand |-> 30, lead_time |-> 3, order_interval |-> 3],
     BREAD |-> [name |-> "bread", price |-> 8, cost |-> 4, current_stock |-> 60,
                daily_demand |-> 20, lead_time |-> 5, order_interval |-> 5],
     MILK  |-> [name |-> "milk", price |-> 12, cost |-> 7, current_stock |-> 50,
                daily_demand |-> 15, lead_time |-> 2, order_interval |-> 5]]

create_sales_history ==
    [WATER |-> <<28, 32, 30, 35, 29, 31, 33>>,
     BREAD |-> <<12, 28, 15, 35, 10, 30, 25>>,
     MILK  |-> <<14, 16, 15, 13, 17, 15, 16>>]

VARIABLES
    current_step,           \* st.session_state.current_step
    day,                    \* st.session_state.day
    cash,                   \* st.session_state.cash
    total_revenue,          \* st.session_state.total_revenue
    total_profit,           \* st.session_state.total_profit
    current_stock,          \* products[p].current_stock
    sales_history,          \* st.session_state.sales_history
    pending_orders,         \* st.session_state.pending_orders
    daily_reports,          \* st.session_state.daily_reports
    player_predictions,     \* st.session_state.player_predictions
    player_service_levels,  \* st.session_state.player_service_levels
    player_orders,          \* st.session_state.player_orders
    products_need_order,    \* st.session_state.products_need_order
    player_order_intervals, \* st.session_state.player_order_intervals
    order_submitted,        \* st.session_state.order_submitted
    simulation_run,         \* st.session_state.simulation_run
    score,                  \* st.session_state.score
    safety_stock_calls,     \* the last call of calculate_safety_stock and its outcome
    engine_calls            \* the last call of another method of the game object

vars == <<current_step, day, cash, total_revenue, total_profit, current_stock,
          sales_history, pending_orders, daily_reports, player_predictions,
          player_service_levels, player_orders, products_need_order,
          player_order_intervals, order_submitted, simulation_run, score,
          safety_stock_calls, engine_calls>>

engineVars == <<day, cash, total_revenue, total_profit, current_stock,
                sales_history, pending_orders, daily_reports, score>>

inputVars == <<player_predictions, player_service_levels, player_orders,
               products_need_order, player_order_intervals>>

\* Records of method calls made outside the wizard.
callVars == <<safety_stock_calls, engine_calls>>

(***************************************************************************)
(* Arithmetic helpers.                                                     *)
(***************************************************************************)
Max(a, b) == IF a >= b THEN a ELSE b

Min(a, b) == IF a <= b THEN a ELSE b

EmptyMap == [p \in {} |-> 0]

RECURSIVE SumSeq(_)
SumSeq(s) == IF s = <<>> THEN 0 ELSE Head(s) + SumSeq(Tail(s))

RECURSIVE SumSquares(_)
SumSquares(s) == IF s = <<>> THEN 0 ELSE Head(s) * Head(s) + SumSquares(Tail(s))

RECURSIVE SumOver(_, _)
SumOver(f, S) ==
    IF S = {} THEN 0
    ELSE LET x == CHOOSE y \in S : TRUE IN f[x] + SumOver(f, S \ {x})

\* Largest r with r * r <= n, by Newton's iteration from above.
RECURSIVE IsqrtFrom(_, _)
IsqrtFrom(n, r) ==
    LET next == (r + n \div r) \div 2
    IN  IF next >= r THEN r ELSE IsqrtFrom(n, next)

Isqrt(n) == IF n <= 0 THEN 0 ELSE IsqrtFrom(n, n)

(***************************************************************************)
(* Demand statistics and the replenishment formulas, as render_step_5      *)
(* evaluates them (fixed point: thousandths of a unit).                    *)
(***************************************************************************)
\* scipy_stats.norm.ppf(pct / 100), in thousandths, for the percentages the
\* service-level input accepts (80..99).
ZScore(pct) ==
    <<842, 878, 915, 954, 994, 1036, 1080, 1126, 1175, 1227,
      1282, 1341, 1405, 1476, 1555, 1645, 1751, 1881, 2054, 2326>>[pct - MinServicePct + 1]

\* scipy_stats.norm.ppf(pct / 100), in thousandths, for pct = 1..99.
PpfTable ==
    <<-2326, -2054, -1881, -1751, -1645, -1555, -1476, -1405, -1341, -1282,
      -1227, -1175, -1126, -1080, -1036, -994, -954, -915, -878, -842,
      -806, -772, -739, -706, -674, -643, -613, -583, -553, -524,
      -496, -468, -440, -412, -385, -358, -332, -305, -279, -253,
      -228, -202, -176, -151, -126, -100, -75, -50, -25, 0,
      25, 50, 75, 100, 126, 151, 176, 202, 228, 253,
      279, 305, 332, 358, 385, 412, 440, 468, 496, 524,
      553, 583, 613, 643, 674, 706, 739, 772, 806, 842,
      878, 915, 954, 994, 1036, 1080, 1126, 1175, 1227, 1282,
      1341, 1405, 1476, 1555, 1645, 1751, 1881, 2054, 2326>>

\* A floating-point result: a finite value (thousandths), an infinity with
\* its sign in value, or not-a-number.
Finite(v) == [kind |-> "finite", value |-> v]

Infinite(sign) == [kind |-> "inf", value |-> sign]

NotANumber == [kind |-> "nan", value |-> 0]

\* scipy_stats.norm.ppf(service_level) for any float: nan outside [0, 1],
\* -inf at 0, +inf at 1, the quantile in between.  No exception is raised.
NormPpf(pct) ==
    IF pct < 0 \/ pct > 100 THEN NotANumber
    ELSE IF pct = 0 THEN Infinite(-1)
    ELSE IF pct = 100 THEN Infinite(1)
    ELSE Finite(PpfTable[pct])

\* np.mean(history), in thousandths.
Mean(history) == (1000 * SumSeq(history)) \div Len(history)

\* n^2 times the population variance of the window: n * sum(x^2) - sum(x)^2.
VarNum(history) ==
    Len(history) * SumSquares(history) - SumSeq(history) * SumSeq(history)

\* z * std * sqrt(lead_time), in thousandths.
SafetyStock(history, pct, lead_time) ==
    (ZScore(pct) * Isqrt(100 * lead_time * VarNum(history))) \div (10 * Len(history))

\* InteractiveInventoryGame.calculate_safety_stock(product_id, service_level):
\* z_score * std * sqrt(lead_time) in floating point, service_level = pct / 100.
\* An infinite z times a zero deviation is not-a-number.
\* A safety stock that divides by the lead time instead of taking its root.
SafetyStockOfShrinking(history, pct, lead_time) ==
    LET z == NormPpf(pct)
    IN  CASE z.kind = "nan" -> NotANumber
          [] z.kind = "inf" -> z
          [] OTHER -> Finite((z.value * Isqrt(10000 * VarNum(history)))
                                \div (100 * Len(history) * (lead_time + 1)))

\* z_score * std * sqrt(lead_time) for a window, a service level (percent)
\* and a lead time, in thousandths.
SafetyStockOf(history, pct, lead_time) ==
    LET z      == NormPpf(pct)
        spread == Isqrt(10000 * lead_time * VarNum(history))
    IN  CASE z.kind = "nan" -> NotANumber
          [] z.kind = "inf" -> IF spread = 0 THEN NotANumber ELSE z
          [] OTHER -> Finite((z.value * spread) \div (100 * Len(history)))

calculate_safety_stock(p, pct) ==
    SafetyStockOf(sales_history[p], pct, create_products[p].lead_time)

\* The sample standard deviation (divisor n - 1), in thousandths.
StdDevSample(history) ==
    IF Len(history) = 1 THEN 0
    ELSE 10 * Isqrt((10000 * VarNum(history))
                        \div (Len(history) * (Len(history) - 1)))

\* np.std(history), the population standard deviation, in thousandths.
StdDev(history) == (10 * Isqrt(10000 * VarNum(history))) \div Len(history)

\* A coefficient of variation that is not defined as 0 for a zero mean.
CoefficientOfVariationUnguarded(mean, std) == IF mean > 0 THEN (10000 * std) \div mean ELSE 1

\* np.std(history) / np.mean(history) if np.mean(history) > 0 else 0, in
\* ten-thousandths.
CoefficientOfVariation(mean, std) == IF mean > 0 THEN (10000 * std) \div mean ELSE 0

\* InteractiveInventoryGame.calculate_demand_stats(product_id).
calculate_demand_stats(p) ==
    LET history == sales_history[p]
    IN  [mean |-> Mean(history),
         std  |-> StdDev(history),
         cv   |-> CoefficientOfVariation(Mean(history), StdDev(history))]

\* InteractiveInventoryGame.calculate_reorder_point(product_id, safety_stock):
\* demand_stats['mean'] * product.lead_time + safety_stock, in thousandths.
calculate_reorder_point(p, safety_stock) ==
    calculate_demand_stats(p).mean * create_products[p].lead_time + safety_stock

\* InteractiveInventoryGame.calculate_target_stock: forecast * (lead_time +
\* order_interval) + safety_stock, in thousandths.
calculate_target_stock(p, forecast, order_interval, safety_stock) ==
    forecast * (create_products[p].lead_time + order_interval) + safety_stock

\* A reorder test that leaves the boundary out.
should_reorder_strict(p, reorder_point) == current_stock[p] * 1000 < reorder_point

\* InteractiveInventoryGame.should_reorder: product.current_stock <= reorder_point.
should_reorder(p, reorder_point) == current_stock[p] * 1000 <= reorder_point

\* An order quantity without the floor at 0 that rounds up.
calculate_order_quantity_ceil(p, target_stock) ==
    (target_stock - 1000 * current_stock[p] + 999) \div 1000

\* InteractiveInventoryGame.calculate_order_quantity:
\* int(max(0, target_stock - product.current_stock)), target in thousandths.
calculate_order_quantity(p, target_stock) ==
    (Max(0, target_stock - 1000 * current_stock[p])) \div 1000

\* forecast * lead_time + safety_stock, in thousandths (forecast in thousandths).
ReorderPoint(forecast, lead_time, safety_stock) ==
    forecast * lead_time + safety_stock

\* product.current_stock <= reorder_point
ShouldOrder(stock, reorder_point) == stock * 1000 <= reorder_point

\* player_predictions.get(p, mean), in thousandths.
Forecast(p) ==
    IF p \in DOMAIN player_predictions
    THEN player_predictions[p] * 100
    ELSE Mean(sales_history[p])

\* player_service_levels.get(p, 0.95), in percent.
ServiceLevel(p) ==
    IF p \in DOMAIN player_service_levels THEN player_service_levels[p] ELSE 95

\* should_order of render_step_5 for product p in the current state.
NeedsOrder(p) ==
    LET L  == create_products[p].lead_time
        ss == SafetyStock(sales_history[p], ServiceLevel(p), L)
    IN  ShouldOrder(current_stock[p], ReorderPoint(Forecast(p), L, ss))

(***************************************************************************)
(* Rendering a step: the writes a script run makes when it draws a step.   *)
(***************************************************************************)
\* render_step_5 with the order inputs still empty: products_need_order is
\* rebuilt, a product above its reorder point gets order 0, a product at or
\* below it keeps whatever player_orders already holds.
Step5NeedOrder == [p \in ProductSet |-> NeedsOrder(p)]

Step5Orders ==
    [p \in DOMAIN player_orders \cup {q \in ProductSet : ~NeedsOrder(q)} |->
        IF NeedsOrder(p) THEN player_orders[p] ELSE 0]

\* The interval input of render_step_5 starts at the product's own interval
\* every time the step is entered, and the drawn value is stored.
Step5Intervals == [p \in ProductSet |-> create_products[p].order_interval]

\* order_details of render_step_6 is non-empty.
HasOrderDetails(orders) == \E p \in DOMAIN orders : orders[p] > 0

\* total_cost of render_step_6: sum over the batch of qty * product.cost.
OrderCost(orders) == [p \in DOMAIN orders |->
                        IF orders[p] > 0 THEN orders[p] * create_products[p].cost ELSE 0]

\* A total that adds up quantities and forgets the unit cost.
TotalCostUnits(orders) ==
    SumOver([p \in DOMAIN orders |-> IF orders[p] > 0 THEN orders[p] ELSE 0],
            DOMAIN orders)

TotalCost(orders) == SumOver(OrderCost(orders), DOMAIN orders)

\* A confirm button that lets the balance go below zero by up to the seeded
\* cash.
CanAffordOverdraft(orders) == cash - TotalCost(orders) >= 0 - InitialCash

\* A confirm button that is drawn whatever the balance.
CanAffordAlways(orders) == TRUE

\* remaining >= 0: the confirm button is only drawn when the batch is affordable.
CanAfford(orders) == cash - TotalCost(orders) >= 0

\* Entering step s (st.rerun after a navigation button): the new step is drawn.
\* submitted and simrun are the flags as the navigation handler left them.
EnterStep(s, submitted, simrun) ==
    /\ current_step' = s
    /\ IF s = 5
       THEN /\ products_need_order' = Step5NeedOrder
            /\ player_orders' = Step5Orders
            /\ player_order_intervals' = Step5Intervals
       ELSE UNCHANGED <<products_need_order, player_orders,
                        player_order_intervals>>
    /\ order_submitted' = IF s = 6 /\ ~HasOrderDetails(player_orders)
                          THEN TRUE ELSE submitted
    /\ simulation_run' = simrun

(***************************************************************************)
(* Initial state: initialize_game, then the first draw of step 0.          *)
(***************************************************************************)
Init ==
    /\ current_step = 0
    /\ day = 1
    /\ cash = InitialCash
    /\ total_revenue = 0
    /\ total_profit = 0
    /\ current_stock = [p \in ProductSet |-> create_products[p].current_stock]
    /\ sales_history = create_sales_history
    /\ pending_orders = EmptyMap
    /\ daily_reports = <<>>
    /\ player_predictions = EmptyMap
    /\ player_service_levels = EmptyMap
    /\ player_orders = EmptyMap
    /\ products_need_order = EmptyMap
    /\ player_order_intervals = EmptyMap
    /\ order_submitted = FALSE
    /\ simulation_run = FALSE
    /\ score = 0
    /\ safety_stock_calls = <<>>
    /\ engine_calls = <<>>

(***************************************************************************)
(* Wizard navigation (main).                                               *)
(***************************************************************************)
\* A wizard that lets the player leave the forecast step with inputs missing.
CanProceedUnchecked ==
    CASE current_step = 5 ->
            \A p \in ProductSet :
                (p \in DOMAIN products_need_order /\ products_need_order[p])
                    => p \in DOMAIN player_orders
      [] current_step = 6 -> order_submitted
      [] current_step = 7 -> simulation_run
      [] OTHER -> TRUE

\* can_proceed of main for the current step.
CanProceed ==
    CASE current_step = 4 ->
            \A p \in ProductSet : /\ p \in DOMAIN player_predictions
                                  /\ p \in DOMAIN player_service_levels
      [] current_step = 5 ->
            \A p \in ProductSet :
                (p \in DOMAIN products_need_order /\ products_need_order[p])
                    => p \in DOMAIN player_orders
      [] current_step = 6 -> order_submitted
      [] current_step = 7 -> simulation_run
      [] OTHER -> TRUE

NextStep ==
    /\ current_step < LastStep
    /\ CanProceed
    /\ EnterStep(current_step + 1, order_submitted, simulation_run)
    /\ UNCHANGED <<engineVars, player_predictions, player_service_levels,
                   callVars>>

PrevStep ==
    /\ current_step > 0
    /\ EnterStep(current_step - 1,
                 IF current_step - 1 = 5 THEN FALSE ELSE order_submitted,
                 IF current_step - 1 = 6 THEN FALSE ELSE simulation_run)
    /\ UNCHANGED <<engineVars, player_predictions, player_service_levels,
                   callVars>>

\* A restart that puts the wizard and the shop back but keeps the score.
ResetKeepsScore ==
    /\ current_step' = 0
    /\ day' = 1
    /\ cash' = InitialCash
    /\ total_revenue' = 0
    /\ total_profit' = 0
    /\ current_stock' = [p \in ProductSet |-> create_products[p].current_stock]
    /\ sales_history' = create_sales_history
    /\ pending_orders' = EmptyMap
    /\ daily_reports' = <<>>
    /\ player_predictions' = EmptyMap
    /\ player_service_levels' = EmptyMap
    /\ player_orders' = EmptyMap
    /\ products_need_order' = EmptyMap
    /\ player_order_intervals' = EmptyMap
    /\ order_submitted' = FALSE
    /\ simulation_run' = FALSE
    /\ UNCHANGED <<score, callVars>>

\* The restart buttons: every key of the session is deleted and the next run
\* initialises the game again.
Reset ==
    /\ current_step' = 0
    /\ day' = 1
    /\ cash' = InitialCash
    /\ total_revenue' = 0
    /\ total_profit' = 0
    /\ current_stock' = [p \in ProductSet |-> create_products[p].current_stock]
    /\ sales_history' = create_sales_history
    /\ pending_orders' = EmptyMap
    /\ daily_reports' = <<>>
    /\ player_predictions' = EmptyMap
    /\ player_service_levels' = EmptyMap
    /\ player_orders' = EmptyMap
    /\ products_need_order' = EmptyMap
    /\ player_order_intervals' = EmptyMap
    /\ order_submitted' = FALSE
    /\ simulation_run' = FALSE
    /\ score' = 0
    /\ UNCHANGED callVars

(***************************************************************************)
(* Player inputs (render_step_4, render_step_5).                           *)
(***************************************************************************)
SetPrediction(p, f) ==
    /\ current_step = 4
    /\ f >= 0 /\ f <= MaxForecast
    /\ player_predictions' =
          [q \in DOMAIN player_predictions \cup {p} |->
              IF q = p THEN f ELSE player_predictions[q]]
    /\ UNCHANGED <<engineVars, current_step, player_service_levels, player_orders,
                   products_need_order, player_order_intervals,
                   order_submitted, simulation_run,
                   callVars>>

SetServiceLevel(p, pct) ==
    /\ current_step = 4
    /\ pct >= MinServicePct /\ pct <= MaxServicePct
    /\ player_service_levels' =
          [q \in DOMAIN player_service_levels \cup {p} |->
              IF q = p THEN pct ELSE player_service_levels[q]]
    /\ UNCHANGED <<engineVars, current_step, player_predictions, player_orders,
                   products_need_order, player_order_intervals,
                   order_submitted, simulation_run,
                   callVars>>

\* The order input of render_step_5 is only drawn for a product that should
\* be ordered; a typed quantity is stored in player_orders.
SetOrder(p, qty) ==
    /\ current_step = 5
    /\ NeedsOrder(p)
    /\ qty >= 0 /\ qty <= MaxOrderQty
    /\ player_orders' =
          [q \in DOMAIN player_orders \cup {p} |->
              IF q = p THEN qty ELSE player_orders[q]]
    /\ UNCHANGED <<engineVars, current_step, player_predictions,
                   player_service_levels, products_need_order,
                   player_order_intervals, order_submitted, simulation_run,
                   callVars>>

\* The interval input of render_step_5 is drawn for every product; its value
\* is stored in player_order_intervals.
SetOrderInterval(p, t) ==
    /\ current_step = 5
    /\ t >= MinOrderInterval /\ t <= MaxOrderInterval
    /\ player_order_intervals' = [player_order_intervals EXCEPT ![p] = t]
    /\ UNCHANGED <<engineVars, current_step, player_predictions,
                   player_service_levels, player_orders, products_need_order,
                   order_submitted, simulation_run,
                   callVars>>

(***************************************************************************)
(* The knowledge check of render_step_1_products.                          *)
(***************************************************************************)
\* The options of the radio: one per product.
QuizAnswers == ProductSet

\* if "面包" in answer
IsCorrectAnswer(answer) == answer = "BREAD"

RECURSIVE SumScoreToday(_)
SumScoreToday(reports) ==
    IF reports = <<>> THEN 0
    ELSE Head(reports).score_today + SumScoreToday(Tail(reports))

\* The part of the score that came from the quiz: the days' deltas are in the
\* reports.  Used to cap the number of bonuses the model grants.
QuizTotal == score - SumScoreToday(daily_reports)

\* The submit button: a correct answer adds the bonus, a wrong one nothing.
SubmitQuiz(answer) ==
    /\ current_step = 1
    /\ QuizTotal < MaxQuiz * QuizBonus
    /\ score' = IF IsCorrectAnswer(answer) THEN score + QuizBonus ELSE score
    /\ UNCHANGED <<current_step, day, cash, total_revenue, total_profit,
                   current_stock, sales_history, pending_orders, daily_reports,
                   inputVars, order_submitted, simulation_run,
                   callVars>>

(***************************************************************************)
(* Order submission (render_step_6, the confirm button).                   *)
(***************************************************************************)
\* The entry written to pending_orders for product p and quantity qty.
NewOrder(p, qty) ==
    [quantity |-> qty,
     days_remaining |-> create_products[p].lead_time,
     cost |-> qty * create_products[p].cost]

\* pending_orders after the confirm loop: every product of the batch with a
\* positive quantity gets a new entry, the other entries are left as they are.
SubmittedOrders(orders) ==
    [p \in DOMAIN pending_orders \cup {q \in DOMAIN orders : orders[q] > 0} |->
        IF p \in DOMAIN orders /\ orders[p] > 0
        THEN NewOrder(p, orders[p])
        ELSE pending_orders[p]]

ConfirmOrder ==
    /\ current_step = 6
    /\ HasOrderDetails(player_orders)
    /\ CanAfford(player_orders)
    /\ pending_orders' = SubmittedOrders(player_orders)
    /\ cash' = cash - TotalCost(player_orders)
    /\ order_submitted' = TRUE
    /\ UNCHANGED <<current_step, day, total_revenue, total_profit, current_stock,
                   sales_history, daily_reports, score, inputVars, simulation_run,
                   callVars>>

(***************************************************************************)
(* One simulated day (process_daily_sales).                                *)
(***************************************************************************)
\* int(x) for the non-negative quotient num / den: truncation.
Trunc(num, den) == num \div den

\* int() replaced by rounding to the nearest integer.
ActualDemandRounded(base_demand, u) ==
    Max(1, (2 * base_demand * u + 100) \div 200)

\* max(1, int(base_demand * random.uniform(0.7, 1.3))), noise u in hundredths.
ActualDemand(base_demand, u) == Max(1, Trunc(base_demand * u, 100))

\* Sales that ignore the stock on hand.
ActualSalesUnchecked(actual_demand, stock) == actual_demand

\* Sales that take the larger of demand and stock.
ActualSalesMax(actual_demand, stock) == Max(actual_demand, stock)

\* A day that sells nothing.
ActualSalesNone(actual_demand, stock) == 0

\* min(actual_demand, product.current_stock)
ActualSales(actual_demand, stock) == Min(actual_demand, stock)

\* Stock that already counts the order landing today.
StockForSaleWithArrival(p) ==
    IF /\ p \in DOMAIN pending_orders
       /\ pending_orders[p].days_remaining <= 1
    THEN current_stock[p] + pending_orders[p].quantity
    ELSE current_stock[p]

\* product.current_stock as the sales loop reads it: the arrivals loop runs
\* after the sales loop, so this is the stock held before today's arrivals.
StockForSale(p) == current_stock[p]

\* The per-product entry of daily_sales.
SalesRecord(p, u) ==
    LET product == create_products[p]
        demand  == ActualDemand(product.daily_demand, u)
        sales   == ActualSales(demand, StockForSale(p))
        revenue == sales * product.price
        cost    == sales * product.cost
    IN  [demand |-> demand,
         sales |-> sales,
         revenue |-> revenue,
         cost |-> cost,
         profit |-> revenue - cost,
         stock_after |-> StockForSale(p) - sales]

\* A shortage entry also when demand was met exactly.
IsStockoutInclusive(rec) == rec.sales <= rec.demand

\* if actual_sales < actual_demand: stockouts.append(...)
IsStockout(rec) == rec.sales < rec.demand

StockoutRecord(p, rec) ==
    [product |-> create_products[p].name,
     shortage |-> rec.demand - rec.sales,
     lost_revenue |-> (rec.demand - rec.sales) * create_products[p].price]

RECURSIVE Stockouts(_, _)
Stockouts(ids, recs) ==
    IF ids = <<>> THEN <<>>
    ELSE (IF IsStockout(recs[Head(ids)])
          THEN <<StockoutRecord(Head(ids), recs[Head(ids)])>>
          ELSE <<>>) \o Stockouts(Tail(ids), recs)

\* A history that grows without eviction.
AppendHistoryNoEvict(history, sales) == Append(history, sales)

\* sales_history[p].append(actual_sales); pop(0) when longer than the window.
AppendHistory(history, sales) ==
    LET h == Append(history, sales)
    IN  IF Len(h) > HistoryWindow THEN Tail(h) ELSE h

\* order['days_remaining'] -= 1 for every pending order.
AdvanceOrder(order) == [order EXCEPT !.days_remaining = @ - 1]

\* An order that lands one advance late.
HasArrivedLate(order) == order.days_remaining < 0

\* An order that lands one advance early.
HasArrivedEarly(order) == order.days_remaining <= 1

\* if order['days_remaining'] <= 0: the order lands.
HasArrived(order) == order.days_remaining <= 0

Arriving == {p \in DOMAIN pending_orders : HasArrived(AdvanceOrder(pending_orders[p]))}

\* A landing order that reaches the stock twice.
StockAfterArrivalTwice(p, stock) ==
    IF p \in Arriving THEN stock + 2 * pending_orders[p].quantity ELSE stock

\* products[p].current_stock += order['quantity'] for a landing order.
StockAfterArrival(p, stock) ==
    IF p \in Arriving THEN stock + pending_orders[p].quantity ELSE stock

\* A day's books that take the revenue for the profit.
DayProfitGross(revenue, cost) == revenue

\* profit = total_revenue - total_cost
DayProfit(revenue, cost) == revenue - cost

\* A bonus granted per product that did not run out.
ScoreTodayPerSku(profit, stockouts) ==
    (IF profit > 0 THEN profit ELSE 0)
        + (NoStockoutBonus * (Len(ProductIds) - Len(stockouts))) \div Len(ProductIds)

\* A score that charges every stockout.
ScoreTodayPenalty(profit, stockouts) ==
    (IF profit > 0 THEN profit ELSE 0)
        + (IF stockouts = <<>> THEN NoStockoutBonus ELSE 0)
        - NoStockoutBonus * Len(stockouts)

\* score_today: 10% of a positive profit plus the no-stockout bonus (tenths).
ScoreToday(profit, stockouts) ==
    (IF profit > 0 THEN profit ELSE 0)
        + (IF stockouts = <<>> THEN NoStockoutBonus ELSE 0)

\* A report numbered with the day that follows the simulated one.
ReportDayNext(new_day) == new_day

\* 'day': st.session_state.day - 1, read after day += 1.
ReportDay(new_day) == new_day - 1

process_daily_sales(noise) ==
    LET daily_sales == [p \in ProductSet |-> SalesRecord(p, noise[p])]
        revenue   == SumOver([p \in ProductSet |-> daily_sales[p].revenue], ProductSet)
        cost      == SumOver([p \in ProductSet |-> daily_sales[p].cost], ProductSet)
        profit    == DayProfit(revenue, cost)
        stockouts == Stockouts(ProductIds, daily_sales)
        today     == ScoreToday(profit, stockouts)
    IN  /\ current_stock' =
              [p \in ProductSet |-> StockAfterArrival(p, daily_sales[p].stock_after)]
        /\ sales_history' =
              [p \in ProductSet |-> AppendHistory(sales_history[p], daily_sales[p].sales)]
        /\ pending_orders' =
              [p \in DOMAIN pending_orders \ Arriving |-> AdvanceOrder(pending_orders[p])]
        /\ cash' = cash + profit
        /\ total_revenue' = total_revenue + revenue
        /\ total_profit' = total_profit + profit
        /\ day' = day + 1
        /\ score' = score + today
        /\ daily_reports' = Append(daily_reports,
              [day |-> ReportDay(day'),
               sales |-> [p \in ProductSet |->
                            [demand |-> daily_sales[p].demand,
                             sales |-> daily_sales[p].sales,
                             revenue |-> daily_sales[p].revenue,
                             profit |-> daily_sales[p].profit,
                             stock_after |-> daily_sales[p].stock_after]],
               total_revenue |-> revenue,
               total_cost |-> cost,
               profit |-> profit,
               stockouts |-> stockouts,
               cash |-> cash + profit,
               score_today |-> today])

\* render_step_7, the run button.
RunDay(noise) ==
    /\ current_step = 7
    /\ day <= MaxDay
    /\ \A p \in ProductSet : noise[p] >= NoiseMin /\ noise[p] <= NoiseMax
    /\ process_daily_sales(noise)
    /\ simulation_run' = TRUE
    /\ UNCHANGED <<current_step, inputVars, order_submitted, callVars>>

(***************************************************************************)
(* The session.                                                            *)
(***************************************************************************)
\* Once the modelled days are over the player may also type 0, an order
\* line that asks for nothing.
OrderInputsOn(p) ==
    IF day > MaxDay THEN OrderInputs[p] \cup {0} ELSE OrderInputs[p]

Next ==
    \/ NextStep
    \/ PrevStep
    \/ Reset
    \/ \E answer \in QuizAnswers : SubmitQuiz(answer)
    \/ \E p \in ProductSet : \E f \in ForecastInputs[p] : SetPrediction(p, f)
    \/ \E p \in ProductSet : \E pct \in ServiceInputs : SetServiceLevel(p, pct)
    \/ \E p \in ProductSet : \E qty \in OrderInputsOn(p) : SetOrder(p, qty)
    \/ \E p \in ProductSet : \E t \in IntervalInputs[p] : SetOrderInterval(p, t)
    \/ ConfirmOrder
    \/ \E noise \in NoiseInputs : RunDay(noise)

Spec == Init /\ [][Next]_vars

(***************************************************************************)
(* The safety-stock method called on its own: calculate_safety_stock is a  *)
(* method of the game object that none of the wizard's pages calls; this   *)
(* specification calls it on the seeded session with service levels drawn  *)
(* from CalcLevelInputs and keeps the last call with what it returned.     *)
(***************************************************************************)
\* Service levels (percent) passed to the method: from below 0 to above 100.
CalcLevelInputs == (0 - MaxCalcOvershoot)..(100 + MaxCalcOvershoot)

CalculateSafetyStock(p, pct) ==
    /\ safety_stock_calls' =
          <<[product |-> p, service_level |-> pct,
             result |-> calculate_safety_stock(p, pct)]>>
    /\ UNCHANGED <<current_step, engineVars, inputVars, order_submitted,
                   simulation_run, engine_calls>>

NextSafetyStock ==
    \E p \in ProductSet : \E pct \in CalcLevelInputs : CalculateSafetyStock(p, pct)

SpecSafetyStock == Init /\ [][NextSafetyStock]_vars

(***************************************************************************)
(* The grade of render_step_9_complete.                                    *)
(***************************************************************************)
\* Grades with exclusive lower bounds.
GradeExclusive(s) ==
    IF s > GradeSMin THEN "S"
    ELSE IF s > GradeAMin THEN "A"
    ELSE IF s > GradeBMin THEN "B"
    ELSE "C"

\* if score >= 150: S  elif score >= 100: A  elif score >= 50: B  else: C
Grade(s) ==
    IF s >= GradeSMin THEN "S"
    ELSE IF s >= GradeAMin THEN "A"
    ELSE IF s >= GradeBMin THEN "B"
    ELSE "C"

(***************************************************************************)
(* The methods of the game object called on their own.  The session the    *)
(* methods read is drawn at the start: either the sales windows (the       *)
(* methods take a window of any length), the stocks and the stored         *)
(* forecasts, or the score of the seeded session; every action is one call *)
(* and keeps it with what it returned.                                     *)
(***************************************************************************)
\* Sales windows of 1 to 7 non-negative integers.
EngineWindows ==
    {<<5>>, <<0>>, <<2, 9>>, <<0, 0, 0>>, <<4, 4, 4, 4>>, <<1, 2, 3, 4, 5, 6>>,
     <<0, 0, 0, 0, 0, 0, 0>>, <<23, 23, 23, 23, 23, 23, 23>>,
     <<10, 20, 30, 10, 20, 30, 10>>}

EngineHistories ==
    {create_sales_history} \cup {[p \in ProductSet |-> h] : h \in EngineWindows}

\* Stocks on hand: the seeded ones, the WATER stock run down to 90, and
\* every product at a common level.
EngineStocks ==
    {[p \in ProductSet |-> create_products[p].current_stock],
     [WATER |-> 90, BREAD |-> 60, MILK |-> 50]}
        \cup {[p \in ProductSet |-> s] : s \in {0, 100}}

\* Stored forecasts (tenths): none, or one per product.
EnginePredictions == {EmptyMap, [WATER |-> 400, BREAD |-> 300, MILK |-> 300]}

\* Scores (tenths of a point) around the grade bounds.
EngineScores == {0, 499, 500, 501, 999, 1000, 1499, 1500, 2500}

\* Service levels (percent) passed to calculate_safety_stock.
EngineLevels == {1, 30, 50, 80, 95, 99}

InitEngine ==
    /\ current_step = 0
    /\ day = 1
    /\ cash = InitialCash
    /\ total_revenue = 0
    /\ total_profit = 0
    /\ \/ /\ current_stock \in EngineStocks
          /\ sales_history \in EngineHistories
          /\ player_predictions \in EnginePredictions
          /\ score = 0
       \/ /\ current_stock = [p \in ProductSet |-> create_products[p].current_stock]
          /\ sales_history = create_sales_history
          /\ player_predictions = EmptyMap
          /\ score \in EngineScores
    /\ pending_orders = EmptyMap
    /\ daily_reports = <<>>
    /\ player_service_levels = EmptyMap
    /\ player_orders = EmptyMap
    /\ products_need_order = EmptyMap
    /\ player_order_intervals = EmptyMap
    /\ order_submitted = FALSE
    /\ simulation_run = FALSE
    /\ safety_stock_calls = <<>>
    /\ engine_calls = <<>>

\* The record of one call.
EngineCall(method, p, args, result) ==
    /\ engine_calls' = <<[method |-> method, product |-> p, args |-> args,
                          result |-> result]>>
    /\ UNCHANGED <<current_step, engineVars, inputVars, order_submitted,
                   simulation_run, safety_stock_calls>>

\* Safety stocks (thousandths) passed on to the other methods.
SafetyStockArgs(p) ==
    {0} \cup {calculate_safety_stock(p, pct).value : pct \in {30, 95}}

\* Forecasts (thousandths) passed to calculate_target_stock: the historical
\* mean and the stored forecast.
ForecastArgs(p) ==
    {calculate_demand_stats(p).mean}
        \cup (IF p \in DOMAIN player_predictions
              THEN {100 * player_predictions[p]} ELSE {})

\* Reorder points (thousandths) passed to should_reorder: at, just below and
\* just above the stock, and the ones the engine computes.
ReorderPointArgs(p) ==
    {1000 * current_stock[p], 1000 * current_stock[p] - 1000,
     1000 * current_stock[p] - 1, 1000 * current_stock[p] + 1}
        \cup {calculate_reorder_point(p, ss) : ss \in SafetyStockArgs(p)}

\* Target stocks (thousandths) passed to calculate_order_quantity.
TargetStockArgs(p) ==
    {0, 1000 * current_stock[p], 1000 * current_stock[p] - 500,
     1000 * current_stock[p] + 999, 1000 * current_stock[p] + 1000}
        \cup {calculate_target_stock(p, f, create_products[p].order_interval, ss) :
                f \in ForecastArgs(p), ss \in SafetyStockArgs(p)}

DemandStatsCall(p) ==
    EngineCall("calculate_demand_stats", p, <<>>, calculate_demand_stats(p))

SafetyStockCall(p, pct) ==
    EngineCall("calculate_safety_stock", p, <<pct>>, calculate_safety_stock(p, pct))

ReorderPointCall(p, ss) ==
    EngineCall("calculate_reorder_point", p, <<ss>>, calculate_reorder_point(p, ss))

TargetStockCall(p, f, t, ss) ==
    EngineCall("calculate_target_stock", p, <<f, t, ss>>,
               calculate_target_stock(p, f, t, ss))

ShouldReorderCall(p, rop) ==
    EngineCall("should_reorder", p, <<rop>>, should_reorder(p, rop))

OrderQuantityCall(p, target) ==
    EngineCall("calculate_order_quantity", p, <<target>>,
               calculate_order_quantity(p, target))

\* The grading of the final page, applied to the score of the session.
GradeCall ==
    EngineCall("grade", "", <<score>>, Grade(score))

NextEngine ==
    \/ \E p \in ProductSet : DemandStatsCall(p)
    \/ \E p \in ProductSet : \E pct \in EngineLevels : SafetyStockCall(p, pct)
    \/ \E p \in ProductSet : \E ss \in SafetyStockArgs(p) : ReorderPointCall(p, ss)
    \/ \E p \in ProductSet : \E f \in ForecastArgs(p) : \E ss \in SafetyStockArgs(p) :
          TargetStockCall(p, f, create_products[p].order_interval, ss)
    \/ \E p \in ProductSet : \E rop \in ReorderPointArgs(p) : ShouldReorderCall(p, rop)
    \/ \E p \in ProductSet : \E target \in TargetStockArgs(p) : OrderQuantityCall(p, target)
    \/ GradeCall

SpecEngine == InitEngine /\ [][NextEngine]_vars

(***************************************************************************)
(* Vocabulary of the properties.                                           *)
(***************************************************************************)
\* The last call of the game object was one of the method.
EngineCalled(method) ==
    engine_calls # <<>> /\ engine_calls[1].method = method

\* The last call of the game object.
LastCall == engine_calls[1]

\* x is about c: within 0.05 of it (values in thousandths).
About(x, c) == x >= c - 50 /\ x <= c + 50

\* The seed scenario of WATER: the seeded history, the safety stock of a
\* service level of 0.95, its reorder point, and the target stock of a
\* forecast equal to the historical mean.
WaterScenario ==
    /\ engine_calls # <<>>
    /\ LastCall.product = "WATER"
    /\ sales_history["WATER"] = create_sales_history["WATER"]

WaterSafetyStock == calculate_safety_stock("WATER", 95).value

WaterReorderPoint == calculate_reorder_point("WATER", WaterSafetyStock)

WaterTargetStock ==
    calculate_target_stock("WATER", calculate_demand_stats("WATER").mean,
                           create_products["WATER"].order_interval,
                           WaterSafetyStock)

\* What the scenario concludes from the reorder point: no reorder at a stock
\* of 120, a reorder at a stock of 90 and then an order of 103.
WaterScenarioDecisions ==
    /\ (/\ EngineCalled("should_reorder")
        /\ LastCall.args[1] = WaterReorderPoint) =>
            /\ current_stock["WATER"] = 120 => LastCall.result = FALSE
            /\ current_stock["WATER"] = 90 => LastCall.result = TRUE
    /\ (/\ EngineCalled("calculate_order_quantity")
        /\ LastCall.args[1] = WaterTargetStock
        /\ current_stock["WATER"] = 90) => LastCall.result = 103

\* The sales windows and the lead times a safety stock is compared over.
ComparedWindows ==
    EngineWindows \cup {create_sales_history[p] : p \in ProductSet}

ComparedLeadTimes == {0} \cup {create_products[p].lead_time : p \in ProductSet}

\* The safety stock v of (history, pct, lead_time) is not above the one of
\* any higher service level.
MonotoneInLevel(history, pct, lead_time, v) ==
    \A higher \in EngineLevels :
        higher >= pct => SafetyStockOf(history, higher, lead_time).value >= v

\* ... of any window with a standard deviation at least as large.
MonotoneInSigma(history, pct, lead_time, v) ==
    \A wider \in ComparedWindows :
        StdDev(wider) >= StdDev(history)
            => SafetyStockOf(wider, pct, lead_time).value >= v

\* ... of any lead time at least as long.
MonotoneInLeadTime(history, pct, lead_time, v) ==
    \A longer \in ComparedLeadTimes :
        longer >= lead_time => SafetyStockOf(history, pct, longer).value >= v

\* The step is one run of process_daily_sales.
DayAdvanced == day' = day + 1

\* The report that a day advance has just appended.
NewReport == daily_reports'[Len(daily_reports')]

\* The step is an accepted press of the confirm button.
OrderAccepted ==
    /\ current_step = 6
    /\ current_step' = 6
    /\ <<cash, pending_orders>>' # <<cash, pending_orders>>

\* The step is a restart of the session.
SessionRestarted ==
    current_step' = 0 /\ day' = 1 /\ daily_reports' = <<>> /\ player_predictions' = EmptyMap

\* Products of the batch with a positive quantity.
Ordered == {p \in DOMAIN player_orders : player_orders[p] > 0}

\* Purchase value of the quantities of the batch for the products in S.
RECURSIVE BatchValue(_)
BatchValue(S) ==
    IF S = {} THEN 0
    ELSE LET p == CHOOSE q \in S : TRUE
         IN  player_orders[p] * create_products[p].cost + BatchValue(S \ {p})

\* The order of p lands in this step.
Lands(p) == p \in DOMAIN pending_orders /\ p \notin DOMAIN pending_orders'

LastReport == daily_reports[Len(daily_reports)]

\* Units of p sold over all reports.
RECURSIVE UnitsSold(_, _)
UnitsSold(p, reports) ==
    IF reports = <<>> THEN 0
    ELSE Head(reports).sales[p].sales + UnitsSold(p, Tail(reports))

\* Units of p that have entered the stock since the seed.
UnitsLanded(p) ==
    current_stock[p] - create_products[p].current_stock + UnitsSold(p, daily_reports)

UnitsPending(p) ==
    IF p \in DOMAIN pending_orders THEN pending_orders[p].quantity ELSE 0

\* Total on-hand stock over the products.
TotalStock(stock) == SumOver(stock, ProductSet)

\* Total on-hand stock at the start of the day that report r describes.
StockBefore(r) ==
    SumOver([p \in ProductSet |-> r.sales[p].stock_after + r.sales[p].sales],
            ProductSet)

\* The day advance of this step directly follows another one: the run button
\* is pressed again with the result of the last run still on the page.
SecondAdvanceInSequence ==
    /\ DayAdvanced
    /\ simulation_run
    /\ daily_reports # <<>>

\* num / den rounded to the nearest integer, ties to even (Python's round).
RoundNearest(num, den) ==
    LET q == num \div den
        r == num % den
    IN  IF 2 * r < den THEN q
        ELSE IF 2 * r > den THEN q + 1
        ELSE IF q % 2 = 0 THEN q ELSE q + 1

(***************************************************************************)
(* C1  Order lifecycle.  An accepted submission leaves, for every product  *)
(* of the batch, a pending order of the submitted quantity with            *)
(* days_remaining = lead time; every day advance lowers days_remaining by  *)
(* one; while more than one day remained the order stays pending and its   *)
(* quantity is not in the stock; at the advance that takes the last        *)
(* remaining day (the L-th after submission) the order is removed and the  *)
(* stock has grown by exactly its quantity, net of the day's sales.        *)
(***************************************************************************)
OrderLifecycle ==
    [][ /\ OrderAccepted =>
              \A p \in Ordered :
                  /\ p \in DOMAIN pending_orders'
                  /\ pending_orders'[p].quantity = player_orders[p]
                  /\ pending_orders'[p].days_remaining = create_products[p].lead_time
        /\ DayAdvanced =>
              \A p \in DOMAIN pending_orders :
                  LET order == pending_orders[p]
                      sold  == NewReport.sales[p].sales
                  IN  /\ order.days_remaining >= 1
                      /\ order.days_remaining <= create_products[p].lead_time
                      /\ IF order.days_remaining = 1
                         THEN /\ p \notin DOMAIN pending_orders'
                              /\ current_stock'[p] = current_stock[p] - sold + order.quantity
                         ELSE /\ p \in DOMAIN pending_orders'
                              /\ pending_orders'[p].quantity = order.quantity
                              /\ pending_orders'[p].days_remaining = order.days_remaining - 1
                              /\ current_stock'[p] = current_stock[p] - sold
      ]_vars

\* Every product of the catalog has had an order land, and none is pending.
OrderLifecycleWitness ==
    /\ pending_orders = EmptyMap
    /\ \A p \in ProductSet : UnitsLanded(p) = MaxOrderQty

(***************************************************************************)
(* C2  Insufficient funds.  While the order step shows a batch whose total *)
(* cost exceeds the cash, no step other than a restart changes the cash or *)
(* the pending orders: the batch cannot be committed, not even in part.    *)
(***************************************************************************)
InsufficientFundsAtomic ==
    [][ ( /\ current_step = 6
          /\ BatchValue(Ordered) > cash
          /\ ~SessionRestarted )
        => UNCHANGED <<cash, pending_orders>> ]_vars

\* The order step shows a batch that costs more than the cash at hand.
InsufficientFundsWitness ==
    /\ current_step = 6
    /\ Ordered # {}
    /\ BatchValue(Ordered) > cash

(***************************************************************************)
(* C3  A submission for a product that already has an order in transit is  *)
(* not accepted: outside a day advance, the pending order of such a        *)
(* product keeps its quantity and days_remaining, and the cash is debited  *)
(* at most for the products of the batch that had no order in transit.     *)
(***************************************************************************)
NoResubmission ==
    [][ (~DayAdvanced /\ ~SessionRestarted) =>
            \A p \in DOMAIN pending_orders :
                /\ p \in DOMAIN pending_orders'
                /\ pending_orders'[p] = pending_orders[p]
                /\ cash' >= cash - BatchValue(Ordered \ DOMAIN pending_orders)
      ]_vars

(***************************************************************************)
(* C4  Every paid-for quantity is credited exactly once: the money spent   *)
(* on orders (seed cash plus booked profit minus cash) is the purchase     *)
(* value of the units that have landed plus that of the units in transit.  *)
(***************************************************************************)
PaidOrdersCredited ==
    InitialCash + total_profit - cash =
        SumOver([p \in ProductSet |->
                    create_products[p].cost * (UnitsLanded(p) + UnitsPending(p))],
                ProductSet)

(***************************************************************************)
(* C5  Cash is debited at submission, not at arrival.  An accepted         *)
(* submission lowers the cash by the sum of quantity x unit cost over the  *)
(* batch and gives each new order days_remaining = lead time; a day        *)
(* advance changes the cash by the day's sales profit only, whether or not *)
(* an order lands in it.                                                   *)
(***************************************************************************)
CashDebitedAtSubmission ==
    [][ /\ OrderAccepted =>
              /\ cash' = cash - BatchValue(Ordered)
              /\ \A p \in Ordered :
                    pending_orders'[p].days_remaining = create_products[p].lead_time
        /\ DayAdvanced =>
              cash' = cash + SumOver([p \in ProductSet |-> NewReport.sales[p].profit],
                                     ProductSet)
      ]_vars

\* An order landed in the last day and the report shows the cash grew by the
\* day's profit alone.
CashDebitedAtSubmissionWitness ==
    /\ daily_reports # <<>>
    /\ \E p \in ProductSet : current_stock[p] > LastReport.sales[p].stock_after
    /\ cash = LastReport.cash
    /\ cash < InitialCash + total_profit

(***************************************************************************)
(* C6  In one day, for every product, sales = min(demand, stock before the *)
(* day), the stock is first lowered by exactly the sales (the report's     *)
(* stock_after) and only then raised by an arriving order.                 *)
(***************************************************************************)
SalesAreMinOfDemandAndStock ==
    [][ DayAdvanced =>
            \A p \in ProductSet :
                LET rec == NewReport.sales[p]
                IN  /\ rec.sales = Min(rec.demand, current_stock[p])
                    /\ rec.stock_after = current_stock[p] - rec.sales
                    /\ current_stock'[p] =
                          rec.stock_after + (IF Lands(p) THEN pending_orders[p].quantity ELSE 0)
      ]_vars

\* A day in which one product sold its whole stock and another its whole demand.
SalesAreMinWitness ==
    /\ daily_reports # <<>>
    /\ \E p \in ProductSet : /\ LastReport.sales[p].sales < LastReport.sales[p].demand
                             /\ LastReport.sales[p].stock_after = 0
    /\ \E p \in ProductSet : /\ LastReport.sales[p].sales = LastReport.sales[p].demand
                             /\ LastReport.sales[p].stock_after > 0

(***************************************************************************)
(* C7  Every product's stock is an integer >= 0 and every entry of its     *)
(* sales history is an integer >= 0.                                       *)
(***************************************************************************)
StockAndHistoryNonNegative ==
    \A p \in ProductSet :
        /\ current_stock[p] \in Nat
        /\ \A i \in 1..Len(sales_history[p]) : sales_history[p][i] \in Nat

\* A product has sold out: its stock is 0 and a day of no sales is in its history.
StockNonNegativeWitness ==
    \E p \in ProductSet :
        /\ current_stock[p] = 0
        /\ sales_history[p][Len(sales_history[p])] = 0

(***************************************************************************)
(* C8  A report lists a stockout for a product exactly when its sales were *)
(* below its demand, once, with shortage = demand - sales and lost revenue *)
(* = shortage x unit price.                                                *)
(***************************************************************************)
StockoutRecorded ==
    \A i \in 1..Len(daily_reports) :
        \A p \in ProductSet :
            LET rec     == daily_reports[i].sales[p]
                outs    == daily_reports[i].stockouts
                entries == {k \in 1..Len(outs) : outs[k].product = create_products[p].name}
            IN  /\ (rec.sales < rec.demand) <=> (entries # {})
                /\ Cardinality(entries) <= 1
                /\ \A k \in entries :
                      /\ outs[k].shortage = rec.demand - rec.sales
                      /\ outs[k].lost_revenue =
                            (rec.demand - rec.sales) * create_products[p].price

\* A report with a stockout of one product and full service of another.
StockoutRecordedWitness ==
    \E i \in 1..Len(daily_reports) :
        /\ Len(daily_reports[i].stockouts) = 1
        /\ daily_reports[i].stockouts[1].shortage > 0

(***************************************************************************)
(* C9  An order in transit never serves the demand of the day it lands:    *)
(* the sales of a product whose order lands in a day advance are bounded   *)
(* by the stock held before the advance, and a demand above that stock is  *)
(* a stockout although the order lands.                                    *)
(***************************************************************************)
NoSameDayFulfilment ==
    [][ DayAdvanced =>
            \A p \in ProductSet :
                Lands(p) =>
                    LET rec == NewReport.sales[p]
                    IN  /\ rec.sales <= current_stock[p]
                        /\ rec.demand > current_stock[p] => rec.sales < rec.demand
                        /\ current_stock'[p] >= pending_orders[p].quantity
      ]_vars

\* A product stocked out on the very day its order landed.
StockoutOnLandingDayWitness ==
    /\ daily_reports # <<>>
    /\ \E p \in ProductSet :
          /\ LastReport.sales[p].sales < LastReport.sales[p].demand
          /\ current_stock[p] >= LastReport.sales[p].stock_after + MaxOrderQty

(***************************************************************************)
(* C10  As claimed: the demands of a day are max(1, round(base x U)) for   *)
(* the noise factors U drawn that day, rounded to the nearest integer.     *)
(***************************************************************************)
DemandIsRounded ==
    [][ DayAdvanced =>
            \E noise \in NoiseInputs :
                \A p \in ProductSet :
                    NewReport.sales[p].demand =
                        Max(1, RoundNearest(create_products[p].daily_demand * noise[p], 100))
      ]_vars

(***************************************************************************)
(* C10, amended: the demands of a day are max(1, int(base x U)) for the    *)
(* noise factors U drawn that day - the product truncated toward zero, not *)
(* rounded - and are never below 1.                                        *)
(***************************************************************************)
DemandIsTruncated ==
    [][ DayAdvanced =>
            /\ \E noise \in NoiseInputs :
                  \A p \in ProductSet :
                      NewReport.sales[p].demand =
                          Max(1, (create_products[p].daily_demand * noise[p]) \div 100)
            /\ \A p \in ProductSet : NewReport.sales[p].demand >= 1
      ]_vars

\* A day whose demand is the truncation of a product that rounds upward.
DemandIsTruncatedWitness ==
    /\ daily_reports # <<>>
    /\ \E noise \in NoiseInputs :
          \A p \in ProductSet :
              /\ LastReport.sales[p].demand =
                    (create_products[p].daily_demand * noise[p]) \div 100
              /\ LastReport.sales[p].demand <
                    RoundNearest(create_products[p].daily_demand * noise[p], 100)

(***************************************************************************)
(* C11  The rolling history is a bounded FIFO window: a day advance puts   *)
(* the fulfilled sales of the product (not its demand) at the end of its   *)
(* history, the history never holds more than 7 entries, and the entries   *)
(* kept are the old ones in their order, the oldest dropped first.         *)
(***************************************************************************)
HistoryIsFifoWindow ==
    [][ DayAdvanced =>
            \A p \in ProductSet :
                LET old  == sales_history[p]
                    new  == sales_history'[p]
                    kept == SubSeq(new, 1, Len(new) - 1)
                IN  /\ Len(new) <= HistoryWindow
                    /\ Len(new) >= 1
                    /\ new[Len(new)] = NewReport.sales[p].sales
                    /\ kept = IF Len(old) < HistoryWindow THEN old ELSE Tail(old)
      ]_vars

\* A day in which a product sold less than was asked for: the full window
\* ends with the sales, not with the demand.
HistoryIsFifoWindowWitness ==
    /\ daily_reports # <<>>
    /\ \E p \in ProductSet :
          /\ LastReport.sales[p].sales < LastReport.sales[p].demand
          /\ Len(sales_history[p]) = HistoryWindow
          /\ sales_history[p][HistoryWindow] = LastReport.sales[p].sales

(***************************************************************************)
(* C12  A day advance books revenue = sum of sales x price, cost = sum of  *)
(* sales x unit cost and profit = revenue - cost over the products; the    *)
(* cash grows by that profit, the cumulative revenue and profit grow by    *)
(* the day's revenue and profit, and the report's cash is the cash after   *)
(* the day.                                                                *)
(***************************************************************************)
DayBooksRevenueCostProfit ==
    [][ DayAdvanced =>
            LET r   == NewReport
                rev == SumOver([p \in ProductSet |->
                                   r.sales[p].sales * create_products[p].price],
                               ProductSet)
                cst == SumOver([p \in ProductSet |->
                                   r.sales[p].sales * create_products[p].cost],
                               ProductSet)
            IN  /\ r.total_revenue = rev
                /\ r.total_cost = cst
                /\ r.profit = rev - cst
                /\ cash' = cash + (rev - cst)
                /\ total_revenue' = total_revenue + rev
                /\ total_profit' = total_profit + (rev - cst)
                /\ r.cash = cash'
      ]_vars

\* Two days booked, the last one with sales of every product at a profit.
DayBooksWitness ==
    /\ Len(daily_reports) >= 2
    /\ LastReport.total_cost > 0
    /\ LastReport.profit > 0
    /\ LastReport.cash = cash
    /\ total_profit > LastReport.profit

(***************************************************************************)
(* C13  The score of a day is 10% of the day's profit when the profit is   *)
(* positive (0 otherwise) plus a flat 50 exactly when no product stocked   *)
(* out that day: one stockout forfeits the whole 50.  The cumulative score *)
(* grows by that amount.  (Scores are held in tenths of a point.)          *)
(***************************************************************************)
DayScoreIsProfitShareAndBonus ==
    [][ DayAdvanced =>
            LET r       == NewReport
                served  == \A p \in ProductSet : r.sales[p].sales >= r.sales[p].demand
                share   == IF r.profit > 0 THEN r.profit ELSE 0
                bonus   == IF served THEN 10 * 50 ELSE 0
            IN  /\ r.score_today = share + bonus
                /\ score' = score + share + bonus
      ]_vars

\* A day in which one product ran out and the others did not: the score of
\* the day is the profit share alone.
DayScoreWitness ==
    \E i \in 1..Len(daily_reports) :
        LET r == daily_reports[i]
        IN  /\ Len(r.stockouts) = 1
            /\ r.profit > 0
            /\ r.score_today = r.profit

(***************************************************************************)
(* C14  The cumulative score never decreases: whatever the operation - a   *)
(* day advance, a quiz answer, an order submission, a navigation step -    *)
(* short of a restart of the session, the score after it is at least the   *)
(* score before it.                                                        *)
(***************************************************************************)
ScoreNeverDecreases ==
    [][ ~SessionRestarted => score' >= score ]_vars

\* A session whose score holds a quiz bonus and the score of a day with a
\* stockout, with an order in transit.
ScoreNeverDecreasesWitness ==
    /\ QuizTotal >= QuizBonus
    /\ daily_reports # <<>>
    /\ LastReport.stockouts # <<>>
    /\ score > QuizTotal
    /\ pending_orders # EmptyMap

(***************************************************************************)
(* C15  The quiz bonus is one-off: over a session the quiz contributes at  *)
(* most one flat +10 to the cumulative score, however often the correct    *)
(* answer is submitted.                                                    *)
(***************************************************************************)
QuizBonusIsOneOff == QuizTotal <= QuizBonus

(***************************************************************************)
(* C16  Day advance is not idempotent: in every reachable state, two day   *)
(* advances in sequence strictly decrease the total on-hand stock and      *)
(* append two distinct reports.                                            *)
(***************************************************************************)
TwoAdvancesDecreaseStock ==
    [][ SecondAdvanceInSequence =>
            /\ TotalStock(current_stock') < StockBefore(LastReport)
            /\ Len(daily_reports') = Len(daily_reports) + 1
            /\ NewReport # LastReport
      ]_vars

(***************************************************************************)
(* C16, amended: every day advance appends one new report, numbered with   *)
(* the day it simulated, and changes the total on-hand stock by the        *)
(* quantity of the orders that land in it minus the day's fulfilled sales. *)
(* Two advances in sequence append two distinct reports, and strictly      *)
(* decrease the total stock when no order lands in either of them and some *)
(* product has stock before the first.                                     *)
(***************************************************************************)
TwoAdvancesDecreaseStockUnlessLanding ==
    [][ /\ DayAdvanced =>
              /\ Len(daily_reports') = Len(daily_reports) + 1
              /\ SubSeq(daily_reports', 1, Len(daily_reports)) = daily_reports
              /\ NewReport.day = day
              /\ TotalStock(current_stock') =
                    TotalStock(current_stock)
                      - SumOver([p \in ProductSet |-> NewReport.sales[p].sales],
                                ProductSet)
                      + SumOver([p \in ProductSet |->
                                    IF Lands(p) THEN pending_orders[p].quantity ELSE 0],
                                ProductSet)
        /\ SecondAdvanceInSequence =>
              /\ NewReport.day = LastReport.day + 1
              /\ ( /\ \A p \in ProductSet :
                         current_stock[p] = LastReport.sales[p].stock_after
                   /\ \A p \in ProductSet : ~Lands(p)
                   /\ StockBefore(LastReport) > 0 )
                  => TotalStock(current_stock') < StockBefore(LastReport)
      ]_vars

\* Two advances in sequence with orders in transit, none of them landing:
\* the total stock is below what it was before the first.
TwoAdvancesWitness ==
    /\ Len(daily_reports) >= 2
    /\ simulation_run
    /\ pending_orders # EmptyMap
    /\ LET r1 == daily_reports[Len(daily_reports) - 1]
           r2 == LastReport
       IN  /\ r2.day = r1.day + 1
           /\ \A p \in ProductSet :
                 /\ r2.sales[p].stock_after + r2.sales[p].sales = r1.sales[p].stock_after
                 /\ current_stock[p] = r2.sales[p].stock_after
           /\ TotalStock(current_stock) < StockBefore(r1)

\* A step that only a restart can take: a jump from a later step to step 0,
\* a lower day or score, shorter reports, or emptied forecasts.
IsRestart ==
    \/ current_step > 1 /\ current_step' = 0
    \/ day' < day
    \/ score' < score
    \/ Len(daily_reports') < Len(daily_reports)
    \/ player_predictions # EmptyMap /\ player_predictions' = EmptyMap

SeededSession ==
    /\ current_step = 0
    /\ day = 1
    /\ cash = 10000
    /\ score = 0
    /\ total_revenue = 0
    /\ total_profit = 0
    /\ current_stock = [WATER |-> 120, BREAD |-> 60, MILK |-> 50]
    /\ sales_history = [WATER |-> <<28, 32, 30, 35, 29, 31, 33>>,
                        BREAD |-> <<12, 28, 15, 35, 10, 30, 25>>,
                        MILK  |-> <<14, 16, 15, 13, 17, 15, 16>>]
    /\ pending_orders = EmptyMap
    /\ daily_reports = <<>>
    /\ player_predictions = EmptyMap
    /\ player_service_levels = EmptyMap
    /\ player_orders = EmptyMap
    /\ player_order_intervals = EmptyMap
    /\ products_need_order = EmptyMap
    /\ ~order_submitted
    /\ ~simulation_run

(***************************************************************************)
(* C17  A reset from any reachable state discards the session and reseeds  *)
(* it: afterwards cash = 10000, day = 1, score = 0, cumulative revenue and *)
(* profit = 0, the stocks are 120/60/50, each history is the seeded 7-day  *)
(* history, there are no pending orders, no reports and no stored player   *)
(* inputs, and the wizard is at step 0.  A reset is recognised by what     *)
(* only it can do: jump from a later step to step 0, lower the day or the  *)
(* score, shorten the reports, or empty the stored forecasts.              *)
(***************************************************************************)
ResetReseedsSession ==
    [][ IsRestart => SeededSession' ]_vars

\* A session in full swing - days run, score earned, an order in transit,
\* inputs stored, the wizard past the order step - in which the reset button
\* can be pressed.
ResetReseedsSessionWitness ==
    /\ current_step > 6
    /\ day > 2
    /\ score > 0
    /\ cash # 10000
    /\ pending_orders # EmptyMap
    /\ player_order_intervals # EmptyMap
    /\ \E p \in ProductSet : current_stock[p] = 0
    /\ ENABLED (Reset /\ IsRestart)

(***************************************************************************)
(* C20  Missing configuration blocks progression: whenever the wizard is   *)
(* at the calculation step or later (current_step >= 5), each of the three *)
(* products has a stored forecast and a stored service level, so the       *)
(* fallbacks (the historical mean and 0.95) are not used.                  *)
(***************************************************************************)
InputsCompleteFromStep5 ==
    current_step >= 5 =>
        \A p \in {"WATER", "BREAD", "MILK"} :
            /\ p \in DOMAIN player_predictions
            /\ p \in DOMAIN player_service_levels

\* The wizard at the calculation step, the reorder decision of every product
\* made with the player's own forecast and service level.
InputsCompleteWitness ==
    /\ current_step = 5
    /\ \A p \in ProductSet :
          /\ p \in DOMAIN player_predictions
          /\ Forecast(p) = 100 * player_predictions[p]
          /\ ServiceLevel(p) = player_service_levels[p]
          /\ p \in DOMAIN products_need_order

(***************************************************************************)
(* C18  The safety-stock calculation rejects a service level outside the   *)
(* open interval (0, 1), the ends 0 and 1 included, with an invalid-input  *)
(* error: a call with such a level never returns a safety stock, be it     *)
(* finite, infinite or not-a-number.                                       *)
(***************************************************************************)
SafetyStockRejectsInvalidLevel ==
    \A i \in 1..Len(safety_stock_calls) :
        LET call == safety_stock_calls[i]
        IN  (call.service_level <= 0 \/ call.service_level >= 100)
                => call.result.kind = "error"

(***************************************************************************)
(* C21  should_reorder is boundary-inclusive: it returns true exactly when *)
(* the stock on hand is at or below the reorder point, so it is true for a *)
(* stock equal to the reorder point and false for a stock one unit above   *)
(* it.                                                                     *)
(***************************************************************************)
ShouldReorderIsInclusive ==
    EngineCalled("should_reorder") =>
        LET s == 1000 * current_stock[LastCall.product]
            r == LastCall.args[1]
        IN  /\ LastCall.result = (s <= r)
            /\ (s = r => LastCall.result = TRUE)
            /\ (s = r + 1000 => LastCall.result = FALSE)

\* should_reorder called with a reorder point equal to the stock on hand.
ShouldReorderIsInclusiveWitness ==
    /\ EngineCalled("should_reorder")
    /\ LastCall.args[1] = 1000 * current_stock[LastCall.product]
    /\ current_stock[LastCall.product] > 0
    /\ LastCall.result = TRUE

(***************************************************************************)
(* C22  calculate_order_quantity returns max(0, target - stock) truncated  *)
(* toward zero: it is never negative, it is 0 when the target is at or     *)
(* below the stock, and it never exceeds the positive difference, of which *)
(* it is the whole part.                                                   *)
(***************************************************************************)
OrderQuantityIsTruncatedShortfall ==
    EngineCalled("calculate_order_quantity") =>
        LET s == 1000 * current_stock[LastCall.product]
            target == LastCall.args[1]
            q == LastCall.result
        IN  /\ q >= 0
            /\ (target <= s => q = 0)
            /\ (target > s =>
                    /\ 1000 * q <= target - s
                    /\ target - s < 1000 * (q + 1))

\* calculate_order_quantity called with a target above the stock by a
\* fractional number of units: the fraction is dropped.
OrderQuantityIsTruncatedShortfallWitness ==
    /\ EngineCalled("calculate_order_quantity")
    /\ LastCall.args[1] > 1000 * current_stock[LastCall.product]
    /\ (LastCall.args[1] - 1000 * current_stock[LastCall.product]) % 1000 # 0
    /\ LastCall.result > 0

(***************************************************************************)
(* C23  The reorder point of the engine is computed from the supplied      *)
(* forecast mean: with a forecast stored for the product,                  *)
(* calculate_reorder_point returns forecast x lead time + safety stock, so *)
(* that two different forecasts give two different reorder points.         *)
(***************************************************************************)
ReorderPointUsesForecast ==
    (/\ EngineCalled("calculate_reorder_point")
     /\ LastCall.product \in DOMAIN player_predictions) =>
        LastCall.result =
            100 * player_predictions[LastCall.product]
                * create_products[LastCall.product].lead_time + LastCall.args[1]

(***************************************************************************)
(* C24  For every sales window of 1 to 7 non-negative integers the         *)
(* population standard deviation is at least 0, and the coefficient of     *)
(* variation is 0 exactly when the mean is 0.                              *)
(***************************************************************************)
CvZeroOnlyAtZeroMean ==
    EngineCalled("calculate_demand_stats") =>
        /\ LastCall.result.std >= 0
        /\ (LastCall.result.cv = 0 <=> LastCall.result.mean = 0)

\* C24 as the code has it: the coefficient of variation is 0 exactly when
\* the mean is 0 or the standard deviation is 0 (a window of equal sales),
\* and the standard deviation is at least 0.
CvZeroAtZeroMeanOrZeroStd ==
    EngineCalled("calculate_demand_stats") =>
        /\ LastCall.result.std >= 0
        /\ (LastCall.result.cv = 0
                <=> (LastCall.result.mean = 0 \/ LastCall.result.std = 0))

\* The statistics of a window of equal, non-zero sales.
CvZeroAtZeroStdWitness ==
    /\ EngineCalled("calculate_demand_stats")
    /\ Len(sales_history[LastCall.product]) \in 1..HistoryWindow
    /\ LastCall.result.mean > 0
    /\ LastCall.result.std = 0
    /\ LastCall.result.cv = 0

(***************************************************************************)
(* C25  The safety stock z x sigma x sqrt(lead time) is monotonically      *)
(* non-decreasing in the service level, in sigma and in the lead time, the *)
(* other two held fixed, for every service level strictly between 0 and 1. *)
(***************************************************************************)
SafetyStockMonotone ==
    EngineCalled("calculate_safety_stock") =>
        LET history == sales_history[LastCall.product]
            pct == LastCall.args[1]
            lead_time == create_products[LastCall.product].lead_time
            v == LastCall.result.value
        IN  /\ MonotoneInLevel(history, pct, lead_time, v)
            /\ MonotoneInSigma(history, pct, lead_time, v)
            /\ MonotoneInLeadTime(history, pct, lead_time, v)

\* C25 as the code has it: non-decreasing in the service level always, and
\* in sigma and the lead time for a service level of at least 0.5, where
\* the z-score is not negative.
SafetyStockMonotoneAboveHalf ==
    EngineCalled("calculate_safety_stock") =>
        LET history == sales_history[LastCall.product]
            pct == LastCall.args[1]
            lead_time == create_products[LastCall.product].lead_time
            v == LastCall.result.value
        IN  /\ MonotoneInLevel(history, pct, lead_time, v)
            /\ pct >= 50 => MonotoneInSigma(history, pct, lead_time, v)
            /\ pct >= 50 => MonotoneInLeadTime(history, pct, lead_time, v)

\* A safety stock at 95%, strictly below the one at 99%, the one of a
\* longer lead time and the one of a wider window.
SafetyStockMonotoneWitness ==
    /\ EngineCalled("calculate_safety_stock")
    /\ LastCall.args[1] = 95
    /\ LastCall.result.value > 0
    /\ LET history == sales_history[LastCall.product]
           lead_time == create_products[LastCall.product].lead_time
           v == LastCall.result.value
       IN  /\ SafetyStockOf(history, 99, lead_time).value > v
           /\ \E longer \in ComparedLeadTimes :
                 SafetyStockOf(history, 95, longer).value > v
           /\ \E wider \in ComparedWindows :
                 SafetyStockOf(wider, 95, lead_time).value > v

(***************************************************************************)
(* C26  Seed scenario of WATER (history 28, 32, 30, 35, 29, 31, 33, lead   *)
(* time 3, service level 0.95, forecast equal to the historical mean): the *)
(* population standard deviation is about 2.315 and the reorder point      *)
(* about 100.02; with a stock of 120 should_reorder is false, with a stock *)
(* of 90 it is true and, the order interval being 3, the suggested order   *)
(* quantity is 103.                                                        *)
(***************************************************************************)
WaterSeedScenario ==
    WaterScenario =>
        /\ EngineCalled("calculate_demand_stats")
                => About(LastCall.result.std, 2315)
        /\ (/\ EngineCalled("calculate_reorder_point")
            /\ LastCall.args[1] = WaterSafetyStock)
                => About(LastCall.result, 100020)
        /\ WaterScenarioDecisions

\* C26 as the code has it: the population standard deviation is about 2.232
\* and the reorder point about 99.79; the decisions are the stated ones.
WaterSeedScenarioRecomputed ==
    WaterScenario =>
        /\ EngineCalled("calculate_demand_stats")
                => About(LastCall.result.std, 2232)
        /\ (/\ EngineCalled("calculate_reorder_point")
            /\ LastCall.args[1] = WaterSafetyStock)
                => About(LastCall.result, 99790)
        /\ WaterScenarioDecisions

\* The order quantity of the scenario asked for at a stock of 90.
WaterSeedScenarioWitness ==
    /\ WaterScenario
    /\ EngineCalled("calculate_order_quantity")
    /\ LastCall.args[1] = WaterTargetStock
    /\ create_products["WATER"].order_interval = 3
    /\ create_products["WATER"].lead_time = 3
    /\ current_stock["WATER"] = 90
    /\ should_reorder("WATER", WaterReorderPoint)
    /\ LastCall.result = 103

(***************************************************************************)
(* C27  The final grade is a function of the cumulative score with         *)
(* inclusive lower bounds: a score of at least 150 gives S, one from 100   *)
(* to below 150 gives A, one from 50 to below 100 gives B and one below 50 *)
(* gives C; every score gets exactly one grade.  (Scores in tenths.)       *)
(***************************************************************************)
GradeHasInclusiveLowerBounds ==
    EngineCalled("grade") =>
        LET s == LastCall.args[1]
            g == LastCall.result
        IN  /\ g \in {"S", "A", "B", "C"}
            /\ g = "S" <=> s >= 1500
            /\ g = "A" <=> (s >= 1000 /\ s < 1500)
            /\ g = "B" <=> (s >= 500 /\ s < 1000)
            /\ g = "C" <=> s < 500

\* The final page grading a score of exactly 100 points.
GradeHasInclusiveLowerBoundsWitness ==
    /\ EngineCalled("grade")
    /\ LastCall.args[1] = score
    /\ score = 1000
    /\ LastCall.result = "A"

(***************************************************************************)
(* C28  The ending stock a day's report records for a product equals the   *)
(* stock on hand of that product when the day operation returns, also on a *)
(* day on which a pending order of the product lands.                      *)
(***************************************************************************)
ReportStockIsStockOnHand ==
    [][DayAdvanced =>
          \A p \in ProductSet :
              NewReport.sales[p].stock_after = current_stock'[p]]_vars

\* The report log is in step with the day counter.
ReportsInStepWithDay ==
    /\ day = 1 + Len(daily_reports)
    /\ \A i \in 1..Len(daily_reports) : daily_reports[i].day = i

\* The reports of before the step are the first reports after it, unaltered.
EarlierReportsKept ==
    /\ Len(daily_reports') >= Len(daily_reports)
    /\ SubSeq(daily_reports', 1, Len(daily_reports)) = daily_reports

(***************************************************************************)
(* C29  The report log is append-only and in step with the day counter: in *)
(* every reachable state day = 1 + number of reports and the i-th report   *)
(* carries the day number i; each day advance appends exactly one report;  *)
(* no operation other than the reset removes or alters an earlier report.  *)
(***************************************************************************)
ReportLogIsAppendOnly ==
    /\ []ReportsInStepWithDay
    /\ [][(DayAdvanced =>
               (Len(daily_reports') = Len(daily_reports) + 1 /\ EarlierReportsKept))
           /\ (~Reset => EarlierReportsKept)]_vars

\* Three days run: three reports numbered 1, 2, 3 and the day counter at 4.
ReportLogIsAppendOnlyWitness ==
    /\ Len(daily_reports) = 3
    /\ day = 4
    /\ \A i \in 1..3 : daily_reports[i].day = i

(***************************************************************************)
(* C30  Between operations every product has at most one pending order,    *)
(* and every pending order has a quantity above 0 and between 1 and the    *)
(* product's lead time days remaining: an order with no day remaining does *)
(* not survive a day advance.                                              *)
(***************************************************************************)
PendingOrdersWellFormed ==
    /\ DOMAIN pending_orders \subseteq ProductSet
    /\ \A p \in DOMAIN pending_orders :
          /\ pending_orders[p].quantity > 0
          /\ pending_orders[p].days_remaining >= 1
          /\ pending_orders[p].days_remaining <= create_products[p].lead_time

\* Days after a confirmed batch: one order has landed and is gone, another is
\* still on its way with fewer days remaining than its lead time.
PendingOrdersWellFormedWitness ==
    /\ daily_reports # <<>>
    /\ order_submitted
    /\ \E p \in ProductSet :
          /\ p \notin DOMAIN pending_orders
          /\ current_stock[p] >= 500
    /\ \E q \in DOMAIN pending_orders :
          /\ pending_orders[q].days_remaining >= 1
          /\ pending_orders[q].days_remaining < create_products[q].lead_time

(***************************************************************************)
(* C31  Cash is never negative: after any sequence of order confirmations  *)
(* (repeated ones included), day advances and navigation steps that starts *)
(* from the seeded 10000, the cash is at least 0.                          *)
(***************************************************************************)
CashNeverNegative == cash >= 0

\* After batches were paid and days were run, the order page holds a batch
\* that the cash left does not cover: the confirm button is not drawn.
CashNeverNegativeWitness ==
    /\ current_step = 6
    /\ order_submitted
    /\ daily_reports # <<>>
    /\ cash >= 0
    /\ cash < InitialCash
    /\ HasOrderDetails(player_orders)
    /\ ~CanAfford(player_orders)

\* The units of product p sold over the reports.
RECURSIVE SoldOver(_, _)
SoldOver(reports, p) ==
    IF reports = <<>> THEN 0
    ELSE Head(reports).sales[p].sales + SoldOver(Tail(reports), p)

\* The quantity of the order of product p that lands in the step: the order
\* is pending before a day advance and gone after it.
LandedInStep(p) ==
    IF DayAdvanced /\ p \in DOMAIN pending_orders /\ p \notin DOMAIN pending_orders'
    THEN pending_orders[p].quantity
    ELSE 0

\* The units of product p sold in the step: the sales of the new report.
SoldInStep(p) ==
    IF DayAdvanced THEN NewReport.sales[p].sales ELSE 0

(***************************************************************************)
(* C32  Stock conservation: in every reachable state since the last reset, *)
(* the stock on hand of each product is its seeded stock, less the sales   *)
(* of the product over all reports, plus the quantities of its orders that *)
(* have landed; units enter the stock only when an order lands and leave   *)
(* it only as fulfilled sales.  The session starts, and restarts, with the *)
(* seeded stock and no report, and every other step changes the stock of a *)
(* product by what lands less what is sold in that step.                   *)
(***************************************************************************)
StockIsConserved ==
    /\ [](\A p \in ProductSet :
            /\ daily_reports = <<>> =>
                   current_stock[p] = create_products[p].current_stock
            /\ current_stock[p] + SoldOver(daily_reports, p)
                   >= create_products[p].current_stock)
    /\ [][~Reset =>
            \A p \in ProductSet :
                /\ current_stock'[p] =
                       current_stock[p] - SoldInStep(p) + LandedInStep(p)
                /\ SoldOver(daily_reports', p) =
                       SoldOver(daily_reports, p) + SoldInStep(p)]_vars

\* A product whose order has landed and that has sold since: its stock is
\* the seeded one, less the sales of the reports, plus the landed quantity.
StockIsConservedWitness ==
    /\ Len(daily_reports) >= 3
    /\ \E p \in ProductSet :
          /\ p \notin DOMAIN pending_orders
          /\ SoldOver(daily_reports, p) > 0
          /\ current_stock[p] =
                create_products[p].current_stock - SoldOver(daily_reports, p) + 500

====
